---- MODULE Spec2Model ----
(***************************************************************************)
(* CKB node dashboard (server.js): the internal JSON-RPC client            *)
(* (ckbRequest, rpcCall, rpcBatch) and the history cache (buildHistory)    *)
(* with its callers (the listen pre-warm, GET /history, buildShowData).    *)
(*                                                                         *)
(* Six specifications share the module:                                    *)
(*   ClientSpec  one rpcCall or rpcBatch exchange, inputs drawn by Init    *)
(*   Spec        the server: overlapping buildHistory calls, the clock,    *)
(*               the node's chain tip                                      *)
(*   WindowSpec  one cycle of buildHistory at every tip height up to       *)
(*               MaxWindowTip, the node leaving out items of the batches   *)
(*   LiveSpec    the pre-warm cycle and a GET /history under an unbounded  *)
(*               clock, the node free to answer in pieces or not at all    *)
(*   ProxySpec   POST /rpc requests beside the pre-warm cycle              *)
(*   FormatSpec  the network hash rate of a difficulty and an average      *)
(*               block time, inputs drawn by Init                          *)
(* JavaScript null/undefined is the empty sequence, a present value x is   *)
(* <<x>>.                                                                  *)
(***************************************************************************)
EXTENDS Integers, Sequences, FiniteSets, TLC

VARIABLES
    \* ---- server state (Spec) ----
    now,            \* Date.now(), ms
    tip,            \* the node's current tip height
    rpcId,          \* let rpcId = 1
    issued,         \* history: ids of the single calls, in issue order
    histCache,      \* let histCache = null
    histCacheTime,  \* let histCacheTime = 0
    histStores,     \* history: number of times histCache was assigned
    call,           \* the buildHistory invocations, by slot
    listening,      \* the listen callback has run
    showDataCache,      \* let showDataCache = null
    showDataCacheTime,  \* let showDataCacheTime = 0
    proxy,          \* the POST /rpc request in progress (ProxySpec)
    \* ---- one client exchange (ClientSpec) ----
    clPc, clMode, clRequests, clSent, clNet, clOut,
    \* ---- one hash rate (FormatSpec) ----
    hrPc,           \* "off", "init", "done"
    hrChainInfo,    \* the result of get_blockchain_info
    hrAvg,          \* avgSec, a fraction
    hrOut           \* hashrateStr

vars == <<now, tip, rpcId, issued, histCache, histCacheTime, histStores, call,
          listening, showDataCache, showDataCacheTime, proxy, clPc, clMode,
          clRequests, clSent, clNet, clOut, hrPc, hrChainInfo, hrAvg, hrOut>>

serverVars == <<now, tip, rpcId, issued, histCache, histCacheTime, histStores,
                call, listening, showDataCache, showDataCacheTime, proxy>>

clientVars == <<clPc, clMode, clRequests, clSent, clNet, clOut>>

hashVars == <<hrPc, hrChainInfo, hrAvg, hrOut>>

---------------------------------------------------------------------------
(* Bounds of the model *)
MaxBatch == 3
MaxCalls == 2
MaxTicks == 3
MaxTip == 1
TickMs == 5000
MaxWindowTip == 62
MaxPow == 5
MaxChunks == 3
MaxRpc == 2

(* Program constants *)
CKB_TIMEOUT_MS == 10000
HIST_TTL == 15000
HIST_COUNT == 60
TX_COUNT == 30
SHOW_TTL == 8000
MAX_BODY == 65536    \* 64 * 1024

---------------------------------------------------------------------------
(* Values *)
Undefined == <<>>

Some(x) == <<x>>

Min(a, b) == IF a < b THEN a ELSE b

Max(a, b) == IF a > b THEN a ELSE b

(* n.toString(16): the hexadecimal digits of n, most significant first *)
RECURSIVE ToHex(_)
ToHex(n) ==
    IF n < 16 THEN <<n>> ELSE Append(ToHex(n \div 16), n % 16)

(* parseInt(s, 16) of a digit string *)
RECURSIVE ParseHex(_)
ParseHex(s) ==
    IF Len(s) = 0 THEN 0
    ELSE 16 * ParseHex(SubSeq(s, 1, Len(s) - 1)) + s[Len(s)]

(* A string of hexadecimal digits, with or without the 0x prefix; a digit
   above 15 stands for a character that is no hexadecimal digit *)
HexString(prefix, digits) == [prefix |-> prefix, digits |-> digits]

(* BigInt values: the base-1000 digits (limbs), least significant first, no
   leading zero limb; 0n is the empty sequence *)
BigBase == 1000

(* l * m + a, for small m and a *)
RECURSIVE BigMulAdd(_, _, _)
BigMulAdd(l, m, a) ==
    IF Len(l) = 0
    THEN IF a = 0 THEN <<>>
         ELSE <<a % BigBase>> \o BigMulAdd(<<>>, m, a \div BigBase)
    ELSE LET v == l[1] * m + a
         IN  <<v % BigBase>> \o BigMulAdd(Tail(l), m, v \div BigBase)

(* Number(l) *)
RECURSIVE BigToNat(_)
BigToNat(l) ==
    IF Len(l) = 0 THEN 0 ELSE l[1] + BigBase * BigToNat(Tail(l))

(* Drop the leading zero limbs *)
RECURSIVE BigTrim(_)
BigTrim(l) ==
    IF Len(l) = 0 \/ l[Len(l)] # 0 THEN l
    ELSE BigTrim(SubSeq(l, 1, Len(l) - 1))

(* l / d and l % d for a small positive d: long division *)
RECURSIVE BigDivMod(_, _)
BigDivMod(l, d) ==
    IF Len(l) = 0 THEN [q |-> <<>>, r |-> 0]
    ELSE LET hi == BigDivMod(Tail(l), d)
             v == hi.r * BigBase + l[1]
         IN  [q |-> <<v \div d>> \o hi.q, r |-> v % d]

(* The BigInt division l / d (d small, positive) *)
BigDiv(l, d) == BigTrim(BigDivMod(l, d).q)

(* l / 1000n ** k *)
BigShift(l, k) == IF Len(l) <= k THEN <<>> ELSE SubSeq(l, k + 1, Len(l))

(* l >= 1000n ** k *)
BigGePow(l, k) == Len(l) > k

(* BigInt('0x' + s) of a string of hexadecimal digits *)
RECURSIVE BigFromHex(_)
BigFromHex(s) ==
    IF Len(s) = 0 THEN <<>>
    ELSE BigMulAdd(BigFromHex(SubSeq(s, 1, Len(s) - 1)), 16, s[Len(s)])

(* n.toString(16) of a BigInt *)
RECURSIVE HexOfBig(_)
HexOfBig(l) ==
    IF Len(l) = 0 THEN <<>>
    ELSE Append(HexOfBig(BigDiv(l, 16)), BigDivMod(l, 16).r)

(* Math.round(num / den), den > 0: the nearest integer, a half rounded up *)
Round(num, den) == (2 * num + den) \div (2 * den)

(* A decimal string: sign, integer part, digits after the point *)
Decimal(neg, int, frac) == [neg |-> neg, int |-> int, frac |-> frac]

(* (num / den).toFixed(2), den > 0: the value rounded to the nearest
   hundredth and written with two digits after the point.  When the exact
   quotient lies halfway between two hundredths the double that stands for
   it lies on either side, so both neighbours are outcomes. *)
ToFixed2(num, den) ==
    LET whole == num \div den
        part == num % den
        q == 100 * whole + (100 * part) \div den
        r == (100 * part) % den
        hs == IF 2 * r < den THEN {q}
              ELSE IF 2 * r > den THEN {q + 1}
              ELSE {q, q + 1}
        abs(h) == IF h < 0 THEN 0 - h ELSE h
    IN  {Decimal(num < 0, abs(h) \div 100,
                 <<(abs(h) \div 10) % 10, abs(h) % 10>>) : h \in hs}

(* String(n) of a BigInt below 1000 *)
BigString(l) == Decimal(FALSE, BigToNat(l), <<>>)

(* Promise outcomes *)
Resolved(v) == [ok |-> TRUE, value |-> v, error |-> Undefined]

Rejected(e) == [ok |-> FALSE, value |-> Undefined, error |-> Some(e)]

(* A JavaScript Error: code is the errno string node sets on socket errors,
   undefined on an Error made by new Error(message) *)
Err(name, message, code) ==
    [name |-> name, message |-> message, code |-> code]

(* JSON bodies: an envelope (object) or an array of envelopes *)
NoError == [code |-> 0, message |-> ""]

Envelope(id, result) ==
    [isArray |-> FALSE, items |-> <<>>, id |-> id,
     hasError |-> FALSE, error |-> NoError, result |-> result]

ErrorEnvelope(id, code, message) ==
    [isArray |-> FALSE, items |-> <<>>, id |-> id,
     hasError |-> TRUE, error |-> [code |-> code, message |-> message],
     result |-> Undefined]

ArrayBody(items) ==
    [isArray |-> TRUE, items |-> items, id |-> 0,
     hasError |-> FALSE, error |-> NoError, result |-> Undefined]

NoBody == Envelope(0, Undefined)

(* What one HTTP exchange with the node ends in *)
NetJson(body) == [kind |-> "json", body |-> body]

NetFail(kind) == [kind |-> kind, body |-> NoBody]

TransportKinds == {"connError", "timeout", "badJson"}

---------------------------------------------------------------------------
(* ckbRequest: the promise of one exchange *)
ckbRequest(net) ==
    CASE net.kind = "json" -> Resolved(net.body)
      [] net.kind = "badJson" ->
            Rejected(Err("SyntaxError", "Unexpected end of JSON input", Undefined))
      [] net.kind = "timeout" ->
            Rejected(Err("Error", "CKB node request timed out", Undefined))
      [] OTHER ->
            Rejected(Err("Error", "connect ECONNREFUSED", Some("ECONNREFUSED")))

(* Variant of rpcCallIssue: the counter read but not advanced (id: rpcId) *)
rpcCallIssue_NoIncrement(id, method, params) ==
    [body |-> [id |-> id, method |-> method, params |-> params],
     next |-> id]

(* rpcCall: the request body { jsonrpc, id: rpcId++, method, params } and the
   counter after it *)
rpcCallIssue(id, method, params) ==
    [body |-> [id |-> id, method |-> method, params |-> params],
     next |-> id + 1]

(* rpcCall: .then(r => { if (r.error) throw new Error(r.error.message);
   return r.result; }) *)
rpcCallThen(p) ==
    IF ~p.ok THEN p
    ELSE IF p.value.hasError
         THEN Rejected(Err("Error", p.value.error.message, Undefined))
         ELSE Resolved(p.value.result)

(* rpcBatch: requests.map((r, i) => ({ id: i, method, params })) *)
rpcBatchBody(requests) ==
    [i \in 1..Len(requests) |->
        [id |-> i - 1, method |-> requests[i].method,
         params |-> requests[i].params]]

(* results.sort((a, b) => a.id - b.id): the stable sort; item k goes to the
   place after the items of a smaller id and the earlier items of its id *)
SortById(s) ==
    LET n == Len(s)
        ids == SubSeq([k \in 1..n |-> s[k].id], 1, n)
        place == SubSeq([k \in 1..n |->
                    Cardinality({j \in 1..n :
                        \/ ids[j] - ids[k] < 0
                        \/ (ids[j] = ids[k] /\ j <= k)})], 1, n)
        from == SubSeq([r \in 1..n |-> CHOOSE k \in 1..n : place[k] = r],
                       1, n)
    IN  SubSeq([r \in 1..n |-> s[from[r]]], 1, n)

(* Variants of rpcBatchThen: the response order kept as received; a batch
   failed as a whole by one failed item; the array test left out *)
rpcBatchThen_Unsorted(p) ==
    IF ~p.ok THEN p
    ELSE IF ~p.value.isArray
         THEN Rejected(Err("Error", "Expected batch array response", Undefined))
         ELSE Resolved([i \in 1..Len(p.value.items) |-> p.value.items[i].result])

rpcBatchThen_ThrowsOnItemError(p) ==
    IF ~p.ok THEN p
    ELSE IF ~p.value.isArray
         THEN Rejected(Err("Error", "Expected batch array response", Undefined))
         ELSE LET sorted == SortById(p.value.items)
              IN  IF \E i \in 1..Len(sorted) : sorted[i].hasError
                  THEN Rejected(Err("Error", "Block not found", Undefined))
                  ELSE Resolved([i \in 1..Len(sorted) |-> sorted[i].result])

rpcBatchThen_NoArrayTest(p) ==
    IF ~p.ok THEN p
    ELSE LET sorted == SortById(p.value.items)
         IN  Resolved([i \in 1..Len(sorted) |-> sorted[i].result])

(* rpcBatch: .then(results => { if (!Array.isArray(results)) throw ...;
   return results.sort(...).map(r => r.result); }) *)
rpcBatchThen(p) ==
    IF ~p.ok THEN p
    ELSE IF ~p.value.isArray
         THEN Rejected(Err("Error", "Expected batch array response", Undefined))
         ELSE LET sorted == SortById(p.value.items)
              IN  Resolved([i \in 1..Len(sorted) |-> sorted[i].result])

---------------------------------------------------------------------------
(* ClientSpec: one exchange of the RPC client with the node.  Init draws the
   call (a single call or a batch of up to MaxBatch requests); the node's
   answer is drawn when the exchange settles. *)

Codes == {-32601, -32000}

Messages == {"Method not found", "CKB node request timed out"}

(* The chain the node serves: the header and the block of every height.
   The timestamps alternate around 30 s a block; over the heights 41 .. 52
   they run backwards. *)
BlockTimestamp(h) ==
    30000 * h + (IF h % 2 = 1 THEN 40000 ELSE 0) + 7 * h * h
    - 60000 * Min(Max(h - 40, 0), 12)

HeaderAt(h) == [number |-> ToHex(h), timestamp |-> ToHex(BlockTimestamp(h))]

(* The number of transactions of a block, cellbase included; the block of
   every seventh height comes without a transaction list *)
BlockAt(h) ==
    [header |-> Some(HeaderAt(h)),
     transactions |-> IF h % 7 = 6 THEN Undefined ELSE Some(h % 7)]

(* get_blockchain_info: the difficulty 0x38d7ea4c68000 (10 ** 15) *)
ChainInfo ==
    [difficulty |-> Some(HexString(TRUE,
                        <<3, 8, 13, 7, 14, 10, 4, 12, 6, 8, 0, 0, 0>>))]

(* Results of get_blockchain_info without a usable difficulty: none, the
   empty string, a string that is no number; no result at all *)
UnusableInfos ==
    {Some([difficulty |-> Undefined]),
     Some([difficulty |-> Some(HexString(TRUE, <<>>))]),
     Some([difficulty |-> Some(HexString(FALSE, <<16, 16>>))]),
     Undefined}

(* The node's result for one request, at tip height t *)
NodeResult(req, t) ==
    CASE req.method = "get_header_by_number" -> HeaderAt(ParseHex(req.params))
      [] req.method = "get_block_by_number" -> BlockAt(ParseHex(req.params))
      [] req.method = "get_tip_header" -> HeaderAt(t)
      [] OTHER -> ChainInfo

ParamValues == {ToHex(0), ToHex(1)}

ClientRequests(n) == [1..n -> [method : {"get_header_by_number"},
                               params : ParamValues]]

Perms(n) == {p \in [1..n -> 1..n] : \A i, j \in 1..n : p[i] = p[j] => i = j}

(* The node's item for one tagged request: its result, or an error *)
NodeItem(req, failed, t) ==
    IF failed THEN ErrorEnvelope(req.id, -32000, "Block not found")
    ELSE Envelope(req.id, Some(NodeResult(req, t)))

(* The node's answers to a batch: every order of the items, every choice of
   failed items; a lone error object; a failed exchange *)
NodeBatchAnswers(sent, t) ==
    LET n == Len(sent)
    IN  {NetFail(k) : k \in TransportKinds}
        \cup {NetJson(ErrorEnvelope(0, -32600, "Invalid request"))}
        \cup {NetJson(ArrayBody([i \in 1..n |-> NodeItem(sent[p[i]], f[p[i]], t)])) :
                p \in Perms(n), f \in [1..n -> BOOLEAN]}

(* The node's answers to a single call *)
NodeCallAnswers(req, t) ==
    {NetFail(k) : k \in TransportKinds}
    \cup {NetJson(Envelope(req.id, Some(NodeResult(req, t)))),
          NetJson(Envelope(req.id, Undefined))}
    \cup {NetJson(ErrorEnvelope(req.id, c, m)) : c \in Codes, m \in Messages}

---------------------------------------------------------------------------
(* buildHistory: the computation of one cycle *)

(* Variant of IsFresh: a snapshot exactly HIST_TTL old still served (<=) *)
IsFresh_Inclusive(cache, cacheTime, t) ==
    cache # Undefined /\ (t - cacheTime) <= HIST_TTL

(* if (histCache && (now - histCacheTime) < HIST_TTL) return histCache; *)
IsFresh(cache, cacheTime, t) ==
    cache # Undefined /\ (t - cacheTime) < HIST_TTL

(* Variant of HeaderRequests: the window not limited to HIST_COUNT *)
HeaderRequests_Unclamped(tipNum) ==
    [i \in 1..(tipNum + 1) |->
        [method |-> "get_header_by_number", params |-> ToHex(i - 1)]]

(* count = Math.min(HIST_COUNT, tipNum + 1); start = tipNum - count + 1;
   one get_header_by_number request per height start .. tipNum *)
HeaderRequests(tipNum) ==
    LET count == Min(HIST_COUNT, tipNum + 1)
        start == tipNum - count + 1
    IN  [i \in 1..count |->
            [method |-> "get_header_by_number",
             params |-> ToHex(start + (i - 1))]]

(* Variant of BlockRequests: a block fetched for every height of the window *)
BlockRequests_WholeWindow(tipNum) ==
    LET count == Min(HIST_COUNT, tipNum + 1)
    IN  [i \in 1..count |->
            [method |-> "get_block_by_number",
             params |-> ToHex(tipNum - count + 1 + (i - 1))]]

(* txFetchCount = Math.min(TX_COUNT, count); one get_block_by_number request
   per height tipNum - txFetchCount + 1 .. tipNum *)
BlockRequests(tipNum) ==
    LET count == Min(HIST_COUNT, tipNum + 1)
        txFetchCount == Min(TX_COUNT, count)
    IN  [i \in 1..txFetchCount |->
            [method |-> "get_block_by_number",
             params |-> ToHex(tipNum - txFetchCount + 1 + (i - 1))]]

(* Variant of TxMapOf: the count not clamped at 0 (length - 1) *)
TxMapOf_NoClamp(blocks) ==
    LET valid == {i \in 1..Len(blocks) :
                    blocks[i] # Undefined /\ blocks[i][1].header # Undefined}
        nums == [i \in valid |-> ParseHex(blocks[i][1].header[1].number)]
        numOf(i) == nums[i]
        lenOf(i) == IF blocks[i][1].transactions = Undefined THEN 1
                    ELSE blocks[i][1].transactions[1]
        last(n) == CHOOSE i \in valid :
                      /\ numOf(i) = n
                      /\ \A j \in valid : numOf(j) = n => j <= i
    IN  [n \in {numOf(i) : i \in valid} |-> lenOf(last(n)) - 1]

(* txMap[n] = Math.max(0, (b.transactions?.length ?? 1) - 1) for every block
   b with a header; a later block of the same number overwrites an earlier *)
TxMapOf(blocks) ==
    LET valid == {i \in 1..Len(blocks) :
                    blocks[i] # Undefined /\ blocks[i][1].header # Undefined}
        nums == [i \in valid |-> ParseHex(blocks[i][1].header[1].number)]
        numOf(i) == nums[i]
        lenOf(i) == IF blocks[i][1].transactions = Undefined THEN 1
                    ELSE blocks[i][1].transactions[1]
        last(n) == CHOOSE i \in valid :
                      /\ numOf(i) = n
                      /\ \A j \in valid : numOf(j) = n => j <= i
    IN  [n \in {numOf(i) : i \in valid} |-> Max(0, lenOf(last(n)) - 1)]

(* Variant of BlockDataFrom: the block time taken from the nearest header
   present before index i *)
RECURSIVE BlockDataFrom_LastPresent(_, _, _)
BlockDataFrom_LastPresent(headers, txMap, i) ==
    LET before == {j \in 1..(i - 1) : headers[j] # Undefined}
    IN  IF i > Len(headers) THEN <<>>
        ELSE IF headers[i] = Undefined \/ before = {}
             THEN BlockDataFrom_LastPresent(headers, txMap, i + 1)
             ELSE LET h == headers[i][1]
                      prev == headers[CHOOSE j \in before :
                                         \A k \in before : k <= j][1]
                      num == ParseHex(h.number)
                      ts == ParseHex(h.timestamp)
                      prevTs == ParseHex(prev.timestamp)
                  IN  <<[number |-> num,
                         timestamp |-> ts,
                         txCount |-> IF num \in DOMAIN txMap
                                     THEN Some(txMap[num]) ELSE Undefined,
                         blockTime |-> ts - prevTs]>>
                      \o BlockDataFrom_LastPresent(headers, txMap, i + 1)

(* for (let i = 1; i < headers.length; i++): one entry per header that has a
   predecessor, both present *)
RECURSIVE BlockDataFrom(_, _, _)
BlockDataFrom(headers, txMap, i) ==
    IF i > Len(headers) THEN <<>>
    ELSE IF headers[i] = Undefined \/ headers[i - 1] = Undefined
         THEN BlockDataFrom(headers, txMap, i + 1)
         ELSE LET h == headers[i][1]
                  prev == headers[i - 1][1]
                  num == ParseHex(h.number)
                  ts == ParseHex(h.timestamp)
                  prevTs == ParseHex(prev.timestamp)
              IN  <<[number |-> num,
                     timestamp |-> ts,
                     txCount |-> IF num \in DOMAIN txMap THEN Some(txMap[num])
                                 ELSE Undefined,
                     blockTime |-> ts - prevTs]>>
                  \o BlockDataFrom(headers, txMap, i + 1)

(* blockData.slice(-20); window = 10 *)
RecentCount == 20
window == 10

(* reduce((s, b) => s + b.blockTime, 0) *)
RECURSIVE SumBlockTime(_)
SumBlockTime(entries) ==
    IF Len(entries) = 0 THEN 0
    ELSE entries[1].blockTime + SumBlockTime(Tail(entries))

(* blockData.slice(-20) *)
Recent(blockData) ==
    SubSeq(blockData, Max(1, Len(blockData) - RecentCount + 1), Len(blockData))

(* avgSec as a fraction: avgMs = sum / (recent.length || 1), avgSec =
   avgMs / 1000 *)
AvgSec(blockData) ==
    LET recent == Recent(blockData)
    IN  [num |-> SumBlockTime(recent),
         den |-> 1000 * (IF Len(recent) = 0 THEN 1 ELSE Len(recent))]

(* The units of formatHashrate, largest first: the divisor 1000n ** pow *)
Units ==
    <<[pow |-> 6, unit |-> "EH/s"], [pow |-> 5, unit |-> "PH/s"],
      [pow |-> 4, unit |-> "TH/s"], [pow |-> 3, unit |-> "GH/s"],
      [pow |-> 2, unit |-> "MH/s"], [pow |-> 1, unit |-> "kH/s"],
      [pow |-> 0, unit |-> "H/s"]>>

(* A rendered hash rate: the number and the unit after the space *)
Rendered(text, unit) == [text |-> text, unit |-> unit]

(* let hashrateStr = '\u2014': the dash, no number and no unit *)
Dash == Rendered(Decimal(FALSE, 0, <<>>), "none")

(* Variant of formatHashrate: the units tried smallest first *)
RECURSIVE formatHashrate_SmallestUnit(_, _)
formatHashrate_SmallestUnit(h, i) ==
    LET k == Len(Units) + 1 - i
    IN  IF i > Len(Units) THEN {Rendered(BigString(h), "H/s")}
        ELSE IF BigGePow(h, Units[k].pow)
             THEN {Rendered(d, Units[k].unit) :
                     d \in ToFixed2(BigToNat(BigShift(BigMulAdd(h, 1000, 0),
                                                      Units[k].pow)), 1000)}
             ELSE formatHashrate_SmallestUnit(h, i + 1)

(* formatHashrate(h), from unit i on: the first unit with h >= div gives
   (Number(h * 1000n / div) / 1000).toFixed(2) + ' ' + unit; past the last
   unit String(h) + ' H/s' *)
RECURSIVE formatHashrate(_, _)
formatHashrate(h, i) ==
    IF i > Len(Units) THEN {Rendered(BigString(h), "H/s")}
    ELSE IF BigGePow(h, Units[i].pow)
         THEN {Rendered(d, Units[i].unit) :
                 d \in ToFixed2(BigToNat(BigShift(BigMulAdd(h, 1000, 0),
                                                  Units[i].pow)), 1000)}
         ELSE formatHashrate(h, i + 1)

(* Variant of ParseDifficulty: 0n where the expression throws *)
ParseDifficulty_Lenient(chainInfo) ==
    IF chainInfo = Undefined THEN Some(<<>>)
    ELSE IF chainInfo[1].difficulty = Undefined THEN Some(<<>>)
    ELSE LET digits == chainInfo[1].difficulty[1].digits
         IN  IF Len(digits) = 0 \/ \E k \in 1..Len(digits) : digits[k] > 15
             THEN Some(<<>>)
             ELSE Some(BigFromHex(digits))

(* BigInt('0x' + chainInfo.difficulty.replace(/^0x/, '')): the value, or
   nothing when the expression throws (chainInfo null, difficulty missing,
   no digits, a character that is no digit) *)
ParseDifficulty(chainInfo) ==
    IF chainInfo = Undefined THEN Undefined
    ELSE IF chainInfo[1].difficulty = Undefined THEN Undefined
    ELSE LET digits == chainInfo[1].difficulty[1].digits
         IN  IF Len(digits) = 0 \/ \E k \in 1..Len(digits) : digits[k] > 15
             THEN Undefined
             ELSE Some(BigFromHex(digits))

(* diff / BigInt(Math.max(1, Math.round(avgSec))) *)
HashrateOf(diff, avg) ==
    BigDiv(diff, Max(1, Round(avg.num, avg.den)))

(* hashrateStr: '\u2014' unless the difficulty parses *)
NetworkHashrate(chainInfo, avg) ==
    LET diff == ParseDifficulty(chainInfo)
    IN  IF diff = Undefined THEN {Dash}
        ELSE formatHashrate(HashrateOf(diff[1], avg), 1)

(* Variant of HashratePerBlock: the window of entry i ends with entry i *)
HashratePerBlock_WindowIncludesEntry(chainInfo, blockData) ==
    LET diff == ParseDifficulty(chainInfo)
    IN  IF diff = Undefined THEN <<>>
        ELSE [k \in 1..Max(0, Len(blockData) - window) |->
                LET slice == SubSeq(blockData, k + 1, k + window)
                    wAvg == [num |-> SumBlockTime(slice),
                             den |-> 1000 * Len(slice)]
                    wHr == IF wAvg.num > 0 THEN HashrateOf(diff[1], wAvg)
                           ELSE <<>>
                IN  [number |-> blockData[k + window].number,
                     hashrate |-> BigToNat(BigShift(wHr, 4))]]

(* hashratePerBlock: for i = window .. length - 1 the rate over the window
   entries before entry i, in TH/s *)
HashratePerBlock(chainInfo, blockData) ==
    LET diff == ParseDifficulty(chainInfo)
    IN  IF diff = Undefined THEN <<>>
        ELSE [k \in 1..Max(0, Len(blockData) - window) |->
                LET slice == SubSeq(blockData, k, k + window - 1)
                    wAvg == [num |-> SumBlockTime(slice),
                             den |-> 1000 * Len(slice)]
                    wHr == IF wAvg.num > 0 THEN HashrateOf(diff[1], wAvg)
                           ELSE <<>>
                IN  [number |-> blockData[k + window].number,
                     hashrate |-> BigToNat(BigShift(wHr, 4))]]

(* Variant of Snapshots: the average taken over every entry of blocks *)
Snapshots_AverageOfAll(tipNum, chainInfo, headers, blocks) ==
    LET blockData == BlockDataFrom(headers, TxMapOf(blocks), 2)
        avg == [num |-> SumBlockTime(blockData),
                den |-> 1000 * Max(1, Len(blockData))]
    IN  {[blocks |-> blockData,
          avgBlockTimeSec |-> a,
          networkHashrate |-> hr,
          hashratePerBlock |-> HashratePerBlock(chainInfo, blockData),
          tipHeight |-> tipNum] :
            a \in ToFixed2(avg.num, avg.den),
            hr \in NetworkHashrate(chainInfo, avg)}

(* Variant of Snapshots: tipHeight read off the last entry of blocks *)
Snapshots_TipOfBlocks(tipNum, chainInfo, headers, blocks) ==
    LET blockData == BlockDataFrom(headers, TxMapOf(blocks), 2)
        avg == AvgSec(blockData)
    IN  {[blocks |-> blockData,
          avgBlockTimeSec |-> a,
          networkHashrate |-> hr,
          hashratePerBlock |-> HashratePerBlock(chainInfo, blockData),
          tipHeight |-> IF Len(blockData) = 0 THEN tipNum
                        ELSE blockData[Len(blockData)].number] :
            a \in ToFixed2(avg.num, avg.den),
            hr \in NetworkHashrate(chainInfo, avg)}

(* histCache = { blocks: blockData, avgBlockTimeSec: avgSec.toFixed(2),
   networkHashrate: hashrateStr, hashratePerBlock, tipHeight: tipNum } *)
Snapshots(tipNum, chainInfo, headers, blocks) ==
    LET blockData == BlockDataFrom(headers, TxMapOf(blocks), 2)
        avg == AvgSec(blockData)
    IN  {[blocks |-> blockData,
          avgBlockTimeSec |-> a,
          networkHashrate |-> hr,
          hashratePerBlock |-> HashratePerBlock(chainInfo, blockData),
          tipHeight |-> tipNum] :
            a \in ToFixed2(avg.num, avg.den),
            hr \in NetworkHashrate(chainInfo, avg)}

---------------------------------------------------------------------------
(* The buildHistory invocations *)
Calls == 1..MaxCalls

IdleCall ==
    [pc |-> "idle", origin |-> "none", showPc |-> "none",
     now |-> 0, sentAt |-> 0,
     tipHeader |-> Undefined, chainInfo |-> Undefined,
     tipNum |-> 0, headers |-> <<>>,
     result |-> Undefined, error |-> Undefined,
     \* history
     observed |-> "none", seenStores |-> 0, overlapped |-> {},
     failedAt |-> "none", gotHeaders |-> {}, gotBlocks |-> {},
     \* what the caller made of the outcome
     caught |-> FALSE, responses |-> 0, status |-> 0,
     sentSnapshot |-> Undefined, sentError |-> Undefined]

InFlight == {"awaitTipInfo", "awaitHeaders", "awaitBlocks"}

Settled == {"resolved", "rejected"}

(* The POST /rpc handler at rest: bodySize and bodyLength are the handler's
   bodySize and body.length, forwarded the length of the body handed to
   proxyRpc, status the status written to the client, served the number of
   requests so far *)
ProxyIdle ==
    [pc |-> "idle", bodySize |-> 0, bodyLength |-> 0, chunks |-> 0,
     forwarded |-> Undefined, status |-> 0, served |-> 0]

ServerInitAt(tips) ==
    /\ now = 0
    /\ tip \in tips
    /\ rpcId = 1
    /\ issued = <<>>
    /\ histCache = Undefined
    /\ histCacheTime = 0
    /\ histStores = 0
    /\ listening = FALSE
    /\ call = [c \in Calls |-> IdleCall]
    /\ showDataCache = Undefined
    /\ showDataCacheTime = 0
    /\ proxy = ProxyIdle

ServerInit == ServerInitAt(0..MaxTip)

HashIdle ==
    /\ hrPc = "off"
    /\ hrChainInfo = Undefined
    /\ hrAvg = [num |-> 0, den |-> 1000]
    /\ hrOut = Dash

ClientIdle ==
    /\ clPc = "off"
    /\ clMode = "none"
    /\ clRequests = <<>>
    /\ clSent = <<>>
    /\ clNet = NetFail("none")
    /\ clOut = Resolved(Undefined)

(* rpcCall(method, params): the synchronous part *)
ClCallSend ==
    /\ clPc = "init"
    /\ clMode = "single"
    /\ LET r == rpcCallIssue(rpcId, clRequests[1].method, clRequests[1].params)
       IN  /\ clSent' = <<r.body>>
           /\ rpcId' = r.next
           /\ issued' = Append(issued, r.body.id)
    /\ clPc' = "sent"
    /\ UNCHANGED <<now, tip, histCache, histCacheTime, histStores, call,
                   listening, showDataCache, showDataCacheTime, proxy,
                   clMode, clRequests, clNet, clOut, hashVars>>

(* rpcCall: the exchange settles *)
ClCallSettle ==
    /\ clPc = "sent"
    /\ clMode = "single"
    /\ \E net \in NodeCallAnswers(clSent[1], tip) :
          /\ clNet' = net
          /\ clOut' = rpcCallThen(ckbRequest(net))
    /\ clPc' = "done"
    /\ UNCHANGED <<serverVars, hashVars, clMode, clRequests, clSent>>

(* rpcBatch(requests): the synchronous part *)
ClBatchSend ==
    /\ clPc = "init"
    /\ clMode = "batch"
    /\ clSent' = rpcBatchBody(clRequests)
    /\ clPc' = "sent"
    /\ UNCHANGED <<serverVars, hashVars, clMode, clRequests, clNet, clOut>>

(* rpcBatch: the exchange settles *)
ClBatchSettle ==
    /\ clPc = "sent"
    /\ clMode = "batch"
    /\ \E net \in NodeBatchAnswers(clSent, tip) :
          /\ clNet' = net
          /\ clOut' = rpcBatchThen(ckbRequest(net))
    /\ clPc' = "done"
    /\ UNCHANGED <<serverVars, hashVars, clMode, clRequests, clSent>>

ClientInit ==
    /\ ServerInit
    /\ clPc = "init"
    /\ clMode \in {"single", "batch"}
    /\ IF clMode = "single"
       THEN clRequests \in [1..1 -> [method : {"get_tip_header",
                                               "get_blockchain_info"},
                                     params : {<<>>}]]
       ELSE clRequests \in UNION {ClientRequests(n) : n \in 0..MaxBatch}
    /\ clSent = <<>>
    /\ clNet = NetFail("none")
    /\ clOut = Resolved(Undefined)
    /\ HashIdle

ClientNext ==
    \/ ClCallSend
    \/ ClCallSettle
    \/ ClBatchSend
    \/ ClBatchSettle

ClientSpec == ClientInit /\ [][ClientNext]_vars

---------------------------------------------------------------------------
(* Spec: the server.  Every action is one run of the event loop: a handler
   or a promise continuation, from its start to its next await. *)

(* The lowest unused invocation slot *)
FreeSlot(c) ==
    /\ call[c].pc = "idle"
    /\ \A d \in Calls : d < c => call[d].pc # "idle"

(* rpcCall for each method of a list in turn: the ids used and the counter
   after the last *)
RECURSIVE IssueAll(_, _)
IssueAll(id, methods) ==
    IF Len(methods) = 0 THEN [ids |-> <<>>, next |-> id]
    ELSE LET r == rpcCallIssue(id, Head(methods), <<>>)
             rest == IssueAll(r.next, Tail(methods))
         IN  [ids |-> <<r.body.id>> \o rest.ids, next |-> rest.next]

(* The node's answers to the batches of a cycle: the items in request order
   or reversed, a lone error object, a refused connection *)
CycleBatchAnswers(sent, t) ==
    LET n == Len(sent)
    IN  {NetFail("connError"),
         NetJson(ErrorEnvelope(0, -32600, "Invalid request")),
         NetJson(ArrayBody([i \in 1..n |-> NodeItem(sent[i], FALSE, t)])),
         NetJson(ArrayBody([i \in 1..n |-> NodeItem(sent[n + 1 - i], FALSE, t)]))}

(* The node's answers to a single call of a cycle *)
CycleCallAnswers(req, t) ==
    {NetFail("connError"),
     NetJson(Envelope(req.id, Some(NodeResult(req, t)))),
     NetJson(Envelope(req.id, Undefined)),
     NetJson(ErrorEnvelope(req.id, -32601, "Method not found"))}

(* timeout: CKB_TIMEOUT_MS: a request CKB_TIMEOUT_MS old is destroyed with
   'CKB node request timed out'; a younger one gets the node's answer *)
Expired(rec) == now - rec.sentAt >= CKB_TIMEOUT_MS

Answers(rec, nodeAnswers) ==
    IF Expired(rec) THEN {NetFail("timeout")} ELSE nodeAnswers

(* The locals of an invocation that has returned or thrown are gone *)
Finished(rec) ==
    [rec EXCEPT !.sentAt = 0, !.tipHeader = Undefined,
                !.chainInfo = Undefined, !.tipNum = 0, !.headers = <<>>]

(* Variant of Catches: the pre-warm call without its .catch *)
Catches_RequestsOnly(origin) == origin \in {"history", "show"}

(* The callers of buildHistory that attach a .catch: the listen callback,
   the /history handler, buildShowData *)
Catches(origin) == origin \in {"warmup", "history", "show"}

(* The caller's continuation of a resolved call; /history:
   .then(data => { res.writeHead(200, ...); res.end(JSON.stringify(data)) }) *)
CallerThen(rec) ==
    IF rec.origin = "history"
    THEN [rec EXCEPT !.responses = @ + 1, !.status = 200,
                     !.sentSnapshot = rec.result]
    ELSE rec

(* The caller's continuation of a rejected call; /history:
   .catch(e => { res.writeHead(500, ...);
                 res.end(JSON.stringify({ error: e.message })) });
   a rejection nobody catches goes to the unhandledRejection logger *)
CallerCatch(rec) ==
    IF ~Catches(rec.origin) THEN rec
    ELSE IF rec.origin = "history"
         THEN [rec EXCEPT !.caught = TRUE, !.responses = @ + 1,
                          !.status = 500,
                          !.sentError = Some(rec.error[1].message)]
         ELSE [rec EXCEPT !.caught = TRUE]

(* Variant of Fail: the cache slot reset when a cycle fails *)
Fail_ClearsCache(c, rec, err, stage) ==
    /\ call' = [call EXCEPT ![c] =
                  CallerCatch([Finished(rec) EXCEPT !.pc = "rejected",
                                                    !.error = Some(err),
                                                    !.failedAt = stage])]
    /\ histCache' = Undefined
    /\ histCacheTime' = 0
    /\ UNCHANGED histStores

(* Variant of Fail: the error wrapped in an AggregationError *)
Fail_Wrapped(c, rec, err, stage) ==
    /\ call' = [call EXCEPT ![c] =
                  CallerCatch([Finished(rec) EXCEPT
                                  !.pc = "rejected",
                                  !.error = Some(Err("AggregationError",
                                                     err.message, Undefined)),
                                  !.failedAt = stage])]
    /\ UNCHANGED <<histCache, histCacheTime, histStores>>

(* A cycle ends in a rejection: nothing is assigned to the cache *)
Fail(c, rec, err, stage) ==
    /\ call' = [call EXCEPT ![c] =
                  CallerCatch([Finished(rec) EXCEPT !.pc = "rejected",
                                                    !.error = Some(err),
                                                    !.failedAt = stage])]
    /\ UNCHANGED <<histCache, histCacheTime, histStores>>

(* histCache = {...}; histCacheTime = now; return histCache; *)
Store(c, rec, snap) ==
    /\ histCache' = Some(snap)
    /\ histCacheTime' = rec.now
    /\ histStores' = histStores + 1
    /\ call' = [call EXCEPT ![c] =
                  CallerThen([Finished(rec) EXCEPT !.pc = "resolved",
                                                   !.result = histCache'])]

(* buildHistory up to its first await: the cached snapshot while it is fresh,
   else the two single calls of Promise.all.  buildShowData then calls
   rpcCall('get_peers'). *)
BuildHistoryStart(c, origin) ==
    LET fresh == IsFresh(histCache, histCacheTime, now)
        methods == (IF fresh THEN <<>>
                    ELSE <<"get_tip_header", "get_blockchain_info">>)
                   \o (IF origin = "show" THEN <<"get_peers">> ELSE <<>>)
        sent == IssueAll(rpcId, methods)
        base == [call[c] EXCEPT
                    !.origin = origin,
                    !.showPc = IF origin = "show" THEN "awaitAll" ELSE "none",
                    !.now = now,
                    !.observed = IF histCache = Undefined THEN "EMPTY"
                                 ELSE IF fresh THEN "FRESH" ELSE "STALE",
                    !.seenStores = histStores,
                    !.overlapped = {d \in Calls : call[d].pc \in InFlight}]
    IN  /\ rpcId' = sent.next
        /\ issued' = issued \o sent.ids
        /\ call' = [call EXCEPT ![c] =
              IF fresh
              THEN CallerThen([base EXCEPT !.pc = "resolved",
                                           !.result = histCache])
              ELSE [base EXCEPT !.pc = "awaitTipInfo", !.sentAt = now]]
        /\ UNCHANGED <<histCache, histCacheTime, histStores>>

(* buildHistory after Promise.all has resolved: tipNum and the header batch *)
AfterTipInfo(c, rec) ==
    IF rec.tipHeader = Undefined
    THEN Fail(c, rec, Err("TypeError", "Cannot read properties of null",
                          Undefined), "tip")
    ELSE /\ call' = [call EXCEPT ![c] =
                [rec EXCEPT !.pc = "awaitHeaders", !.sentAt = now,
                            !.tipNum = ParseHex(rec.tipHeader[1].number)]]
         /\ UNCHANGED <<histCache, histCacheTime, histStores>>

(* server.listen callback: the pre-warm call of buildHistory *)
Listen ==
    /\ ~listening
    /\ listening' = TRUE
    /\ \E c \in Calls : FreeSlot(c) /\ BuildHistoryStart(c, "warmup")
    /\ UNCHANGED <<now, tip, showDataCache, showDataCacheTime, proxy,
                   clientVars,
                   hashVars>>

(* GET /history *)
HistoryRequest ==
    /\ listening
    /\ \E c \in Calls : FreeSlot(c) /\ BuildHistoryStart(c, "history")
    /\ UNCHANGED <<now, tip, listening, showDataCache, showDataCacheTime,
                   proxy, clientVars,
                   hashVars>>

(* GET /api/show-data: buildShowData past its own freshness test *)
ShowDataRequest ==
    /\ listening
    /\ ~(showDataCache # Undefined /\ (now - showDataCacheTime) < SHOW_TTL)
    /\ \E c \in Calls : FreeSlot(c) /\ BuildHistoryStart(c, "show")
    /\ UNCHANGED <<now, tip, listening, showDataCache, showDataCacheTime,
                   proxy, clientVars,
                   hashVars>>

(* await Promise.all([rpcCall('get_tip_header'),
   rpcCall('get_blockchain_info')]) settles, get_blockchain_info with one of
   the given answers: rejected with the error of a call that failed, else
   resolved with both results *)
SettleTipInfoWith(c, infoAnswers) ==
    /\ call[c].pc = "awaitTipInfo"
    /\ \E netTip \in Answers(call[c], CycleCallAnswers(
                    [id |-> 0, method |-> "get_tip_header", params |-> <<>>],
                    tip)),
          netInfo \in Answers(call[c], infoAnswers) :
          LET pTip == rpcCallThen(ckbRequest(netTip))
              pInfo == rpcCallThen(ckbRequest(netInfo))
          IN  \/ /\ ~pTip.ok
                 /\ Fail(c, call[c], pTip.error[1], "tip")
              \/ /\ ~pInfo.ok
                 /\ Fail(c, call[c], pInfo.error[1], "info")
              \/ /\ pTip.ok /\ pInfo.ok
                 /\ AfterTipInfo(c, [call[c] EXCEPT
                                        !.tipHeader = pTip.value,
                                        !.chainInfo = pInfo.value])
    /\ UNCHANGED <<now, tip, rpcId, issued, listening, showDataCache,
                   showDataCacheTime, proxy, clientVars,
                   hashVars>>

(* The answers of the node to get_blockchain_info *)
InfoAnswers ==
    CycleCallAnswers([id |-> 0, method |-> "get_blockchain_info",
                      params |-> <<>>], tip)

SettleTipInfo(c) == SettleTipInfoWith(c, InfoAnswers)

(* History: the heights of the headers, or of the blocks, that the answer
   to a batch delivers *)
HeightsOf(net, ofBlocks) ==
    IF net.kind = "json" /\ net.body.isArray
    THEN LET items == net.body.items
             present == {k \in 1..Len(items) :
                           ~items[k].hasError /\ items[k].result # Undefined}
             header(k) == IF ofBlocks THEN items[k].result[1].header[1]
                          ELSE items[k].result[1]
         IN  {ParseHex(header(k).number) : k \in present}
    ELSE {}

(* The node's answers to a batch of a cycle when it leaves out items: none,
   the first, the last, the middle one or all of them *)
FaultyBatchAnswers(sent, t) ==
    LET n == Len(sent)
        faults == {{}, {1}, {n}, {(n + 1) \div 2}, 1..n}
    IN  {NetFail("connError"),
         NetJson(ErrorEnvelope(0, -32600, "Invalid request")),
         NetJson(ArrayBody([i \in 1..n |-> NodeItem(sent[n + 1 - i], FALSE, t)]))}
        \cup {NetJson(ArrayBody([i \in 1..n |-> NodeItem(sent[i], i \in f, t)])) :
                f \in faults}

(* The header batch settles with one of the given answers; on success the
   block batch is sent *)
SettleHeadersWith(c, answers) ==
    /\ call[c].pc = "awaitHeaders"
    /\ \E net \in Answers(call[c], answers) :
          LET p == rpcBatchThen(ckbRequest(net))
          IN  IF ~p.ok THEN Fail(c, call[c], p.error[1], "headers")
              ELSE /\ call' = [call EXCEPT ![c] =
                          [@ EXCEPT !.pc = "awaitBlocks", !.sentAt = now,
                                    !.headers = p.value,
                                    !.gotHeaders = HeightsOf(net, FALSE)]]
                   /\ UNCHANGED <<histCache, histCacheTime, histStores>>
    /\ UNCHANGED <<now, tip, rpcId, issued, listening, showDataCache,
                   showDataCacheTime, proxy, clientVars, hashVars>>

(* The block batch settles with one of the given answers; on success the
   snapshot is built and stored *)
SettleBlocksWith(c, answers) ==
    /\ call[c].pc = "awaitBlocks"
    /\ \E net \in Answers(call[c], answers) :
          LET p == rpcBatchThen(ckbRequest(net))
              rec == [call[c] EXCEPT !.gotBlocks = HeightsOf(net, TRUE)]
          IN  IF ~p.ok THEN Fail(c, call[c], p.error[1], "blocks")
              ELSE \E snap \in Snapshots(call[c].tipNum, call[c].chainInfo,
                                          call[c].headers, p.value) :
                      Store(c, rec, snap)
    /\ UNCHANGED <<now, tip, rpcId, issued, listening, showDataCache,
                   showDataCacheTime, proxy, clientVars, hashVars>>

(* await rpcBatch(headerReqs) *)
SettleHeaders(c) ==
    SettleHeadersWith(c, CycleBatchAnswers(
        rpcBatchBody(HeaderRequests(call[c].tipNum)), tip))

(* await rpcBatch(blockReqs) *)
SettleBlocks(c) ==
    SettleBlocksWith(c, CycleBatchAnswers(
        rpcBatchBody(BlockRequests(call[c].tipNum)), tip))

(* buildShowData: showDataCache = result; showDataCacheTime = now *)
ShowStore(c) ==
    /\ showDataCache' = Some([node |->
            IF call[c].pc = "resolved"
            THEN Some([tipHeight |-> call[c].result[1].tipHeight])
            ELSE Undefined])
    /\ showDataCacheTime' = call[c].now

(* buildShowData: both Promise.all (buildHistory caught, then the channel
   fetches) have settled; with a history the tip header is fetched again for
   the epoch, else the result is stored *)
ShowFetchesSettled(c) ==
    /\ call[c].showPc = "awaitAll"
    /\ call[c].pc \in Settled
    /\ IF call[c].pc = "resolved"
       THEN LET r == rpcCallIssue(rpcId, "get_tip_header", <<>>)
            IN  /\ rpcId' = r.next
                /\ issued' = Append(issued, r.body.id)
                /\ call' = [call EXCEPT ![c].showPc = "awaitEpoch"]
                /\ UNCHANGED <<showDataCache, showDataCacheTime>>
       ELSE /\ ShowStore(c)
            /\ call' = [call EXCEPT ![c].showPc = "done"]
            /\ UNCHANGED <<rpcId, issued>>
    /\ UNCHANGED <<now, tip, histCache, histCacheTime, histStores, listening,
                   proxy, clientVars,
                   hashVars>>

(* buildShowData: the epoch fetch has settled (caught) *)
ShowEpochSettled(c) ==
    /\ call[c].showPc = "awaitEpoch"
    /\ ShowStore(c)
    /\ call' = [call EXCEPT ![c].showPc = "done"]
    /\ UNCHANGED <<now, tip, rpcId, issued, histCache, histCacheTime,
                   histStores, listening, proxy, clientVars,
                   hashVars>>

(* Time passes, unless a request has reached its timeout *)
Tick ==
    /\ now + TickMs <= MaxTicks * TickMs
    /\ \A c \in Calls : call[c].pc \in InFlight => ~Expired(call[c])
    /\ now' = now + TickMs
    /\ UNCHANGED <<tip, rpcId, issued, histCache, histCacheTime, histStores,
                   call, listening, showDataCache, showDataCacheTime,
                   proxy, clientVars,
                   hashVars>>

(* The node's chain grows by a block *)
NewBlock ==
    /\ tip < MaxTip
    /\ tip' = tip + 1
    /\ UNCHANGED <<now, rpcId, issued, histCache, histCacheTime, histStores,
                   call, listening, showDataCache, showDataCacheTime,
                   proxy, clientVars,
                   hashVars>>

Init == ServerInit /\ ClientIdle /\ HashIdle

Next ==
    \/ Listen
    \/ HistoryRequest
    \/ ShowDataRequest
    \/ \E c \in Calls : SettleTipInfo(c)
    \/ \E c \in Calls : SettleHeaders(c)
    \/ \E c \in Calls : SettleBlocks(c)
    \/ \E c \in Calls : ShowFetchesSettled(c)
    \/ \E c \in Calls : ShowEpochSettled(c)
    \/ Tick
    \/ NewBlock

Spec == Init /\ [][Next]_vars

---------------------------------------------------------------------------
(* WindowSpec: the pre-warm cycle at a tip height of 0 .. MaxWindowTip, the
   node leaving out items of the two batches and answering
   get_blockchain_info without a usable difficulty *)

SettleTipInfoFaulty(c) ==
    SettleTipInfoWith(c, InfoAnswers
        \cup {NetJson(Envelope(0, info)) : info \in UnusableInfos})

SettleHeadersFaulty(c) ==
    SettleHeadersWith(c, FaultyBatchAnswers(
        rpcBatchBody(HeaderRequests(call[c].tipNum)), tip))

SettleBlocksFaulty(c) ==
    SettleBlocksWith(c, FaultyBatchAnswers(
        rpcBatchBody(BlockRequests(call[c].tipNum)), tip))

WindowInit == ServerInitAt(0..MaxWindowTip) /\ ClientIdle /\ HashIdle

WindowNext ==
    \/ Listen
    \/ \E c \in Calls : SettleTipInfoFaulty(c)
    \/ \E c \in Calls : SettleHeadersFaulty(c)
    \/ \E c \in Calls : SettleBlocksFaulty(c)

WindowSpec == WindowInit /\ [][WindowNext]_vars

---------------------------------------------------------------------------
(* LiveSpec: the pre-warm cycle and a GET /history against a node that may
   answer, stay silent, or send its response piece by piece.  The clock is
   not bounded: now keeps one reading and a step of the clock moves every
   timestamp back instead, down to the age from which the program no
   longer tells ages apart (CKB_TIMEOUT_MS for a request, HIST_TTL for a
   snapshot). *)

LiveNow == HIST_TTL

(* TickMs pass *)
LiveTick ==
    /\ \A c \in Calls : call[c].pc \in InFlight => ~Expired(call[c])
    /\ call' = [c \in Calls |->
                  IF call[c].pc \in InFlight
                  THEN [call[c] EXCEPT
                          !.sentAt = Max(@ - TickMs, now - CKB_TIMEOUT_MS),
                          !.now = Max(@ - TickMs, now - HIST_TTL)]
                  ELSE call[c]]
    /\ histCacheTime' = Max(histCacheTime - TickMs, now - HIST_TTL)
    /\ UNCHANGED <<now, tip, rpcId, issued, histCache, histStores, listening,
                   showDataCache, showDataCacheTime, proxy, clientVars,
                   hashVars>>

(* res.on('data', d => { data += d; }): a piece of the response arrives
   before the socket has been idle for CKB_TIMEOUT_MS; the timeout of
   http.request counts the time since the last activity of the socket *)
Trickle(c) ==
    /\ call[c].pc \in InFlight
    /\ ~Expired(call[c])
    /\ call[c].sentAt # now
    /\ call' = [call EXCEPT ![c].sentAt = now]
    /\ UNCHANGED <<now, tip, rpcId, issued, histCache, histCacheTime,
                   histStores, listening, showDataCache, showDataCacheTime,
                   proxy, clientVars, hashVars>>

(* req.on('timeout', () => req.destroy(new Error(...))): the socket of a
   request of the cycle has been idle for CKB_TIMEOUT_MS *)
TimeoutFires(c) ==
    /\ Expired(call[c])
    /\ (SettleTipInfo(c) \/ SettleHeaders(c) \/ SettleBlocks(c))

LiveInit ==
    /\ now = LiveNow
    /\ tip = 0
    /\ rpcId = 1
    /\ issued = <<>>
    /\ histCache = Undefined
    /\ histCacheTime = 0
    /\ histStores = 0
    /\ listening = FALSE
    /\ call = [c \in Calls |-> IdleCall]
    /\ showDataCache = Undefined
    /\ showDataCacheTime = 0
    /\ proxy = ProxyIdle
    /\ ClientIdle /\ HashIdle

LiveNext ==
    \/ Listen
    \/ HistoryRequest
    \/ \E c \in Calls : SettleTipInfo(c)
    \/ \E c \in Calls : SettleHeaders(c)
    \/ \E c \in Calls : SettleBlocks(c)
    \/ \E c \in Calls : Trickle(c)
    \/ LiveTick

(* Time passes, and a timeout that is due fires; the node owes nothing *)
LiveSpec ==
    /\ LiveInit
    /\ [][LiveNext]_vars
    /\ WF_vars(LiveTick)
    /\ \A c \in Calls : WF_vars(TimeoutFires(c))

---------------------------------------------------------------------------
(* ProxySpec: POST /rpc requests, their bodies arriving in chunks, beside
   the pre-warm cycle of buildHistory *)

(* The sizes of a chunk of a request body *)
ChunkSizes == {1, MAX_BODY \div 2, MAX_BODY}

(* Variant of RpcDataThen: no limit on the size of the body *)
RpcDataThen_NoLimit(p, n) ==
    [p EXCEPT !.bodySize = @ + n, !.bodyLength = @ + n, !.chunks = @ + 1]

(* req.on('data', d => { bodySize += d.length;
       if (bodySize > MAX_BODY) { req.destroy(); return; } body += d; }) *)
RpcDataThen(p, n) ==
    IF p.bodySize + n > MAX_BODY
    THEN [p EXCEPT !.pc = "destroyed", !.bodySize = @ + n, !.chunks = @ + 1]
    ELSE [p EXCEPT !.bodySize = @ + n, !.bodyLength = @ + n, !.chunks = @ + 1]

(* if (req.url === '/rpc' && req.method === 'POST'): let body = '';
   let bodySize = 0; the two listeners are attached *)
RpcRequest ==
    /\ listening
    /\ proxy.pc \in {"idle", "destroyed", "answered"}
    /\ proxy.served < MaxRpc
    /\ proxy' = [ProxyIdle EXCEPT !.pc = "receiving",
                                  !.served = proxy.served + 1]
    /\ UNCHANGED <<now, tip, rpcId, issued, histCache, histCacheTime,
                   histStores, call, listening, showDataCache,
                   showDataCacheTime, clientVars, hashVars>>

(* A chunk of the request body arrives *)
RpcData ==
    /\ proxy.pc = "receiving"
    /\ proxy.chunks < MaxChunks
    /\ \E n \in ChunkSizes : proxy' = RpcDataThen(proxy, n)
    /\ UNCHANGED <<now, tip, rpcId, issued, histCache, histCacheTime,
                   histStores, call, listening, showDataCache,
                   showDataCacheTime, clientVars, hashVars>>

(* req.on('end', () => proxyRpc(body, res)): the body is written to a
   request of its own to the node *)
RpcEnd ==
    /\ proxy.pc = "receiving"
    /\ proxy' = [proxy EXCEPT !.pc = "forwarding",
                              !.forwarded = Some(proxy.bodyLength)]
    /\ UNCHANGED <<now, tip, rpcId, issued, histCache, histCacheTime,
                   histStores, call, listening, showDataCache,
                   showDataCacheTime, clientVars, hashVars>>

(* proxyRpc: the node responds (writeHead(200), ckbRes.pipe(res)) or the
   request fails (writeHead(502)) *)
ProxySettle ==
    /\ proxy.pc = "forwarding"
    /\ \E st \in {200, 502} :
          proxy' = [proxy EXCEPT !.pc = "answered", !.status = st]
    /\ UNCHANGED <<now, tip, rpcId, issued, histCache, histCacheTime,
                   histStores, call, listening, showDataCache,
                   showDataCacheTime, clientVars, hashVars>>

ProxyInit == ServerInitAt({0}) /\ ClientIdle /\ HashIdle

ProxyNext ==
    \/ Listen
    \/ \E c \in Calls : SettleTipInfo(c)
    \/ \E c \in Calls : SettleHeaders(c)
    \/ \E c \in Calls : SettleBlocks(c)
    \/ RpcRequest
    \/ RpcData
    \/ RpcEnd
    \/ ProxySettle

ProxySpec == ProxyInit /\ [][ProxyNext]_vars

---------------------------------------------------------------------------
(* FormatSpec: hashrateStr for a difficulty and an average block time *)

(* The BigInt with the limbs hi, lo followed by k zero limbs *)
BigOf(hi, lo, k) == BigTrim([i \in 1..(k + 2) |->
                               IF i <= k THEN 0
                               ELSE IF i = k + 1 THEN lo ELSE hi])

(* The difficulties: up to two limbs times a power of 1000 *)
Difficulties ==
    {BigOf(hi, lo, k) : hi \in {0, 1, 10, 999}, lo \in {0, 5, 500, 999},
                        k \in 0..MaxPow}

(* get_blockchain_info with the difficulty d in hexadecimal (0x0 for zero) *)
InfoOf(d) ==
    Some([difficulty |-> Some(HexString(TRUE,
            IF Len(d) = 0 THEN <<0>> ELSE HexOfBig(d)))])

(* The results of get_blockchain_info: a difficulty, no difficulty, a
   string that is no number, no result *)
ChainInfos == {InfoOf(d) : d \in Difficulties} \cup UnusableInfos

(* The averages of one block time, in ms *)
AvgMsValues == {-5000, 0, 400, 500, 1000, 1499, 1500, 10000, 30014}

FormatInit ==
    /\ ServerInit /\ ClientIdle
    /\ hrPc = "init"
    /\ hrChainInfo \in ChainInfos
    /\ hrAvg \in {[num |-> ms, den |-> 1000] : ms \in AvgMsValues}
    /\ hrOut = Dash

(* hashrateStr = '\u2014'; try { ... hashrateStr = formatHashrate(hrBig) } *)
RenderHashrate ==
    /\ hrPc = "init"
    /\ hrOut' \in NetworkHashrate(hrChainInfo, hrAvg)
    /\ hrPc' = "done"
    /\ UNCHANGED <<serverVars, clientVars, hrChainInfo, hrAvg>>

FormatNext == RenderHashrate

FormatSpec == FormatInit /\ [][FormatNext]_vars

---------------------------------------------------------------------------
(* Properties of the history cache (Spec) *)

CyclesInFlight == {c \in Calls : call[c].pc \in InFlight}

(* C1: single-flight: at any moment at most one aggregation cycle is in
   flight, however many buildHistory calls overlap. *)
C1_AtMostOneCycleInFlight == Cardinality(CyclesInFlight) <= 1

(* C2: buildHistory calls that observe the same stale or empty cache and
   overlap in time settle with the same outcome: the same snapshot, or all
   of them a failure. *)
C2_OverlappingCallsShareOutcome ==
    \A c, d \in Calls :
        (/\ call[c].pc \in Settled /\ call[d].pc \in Settled
         /\ c \in call[d].overlapped
         /\ call[c].observed \in {"EMPTY", "STALE"}
         /\ call[d].observed \in {"EMPTY", "STALE"}
         /\ call[c].seenStores = call[d].seenStores)
        => (call[c].pc = call[d].pc /\ call[c].result = call[d].result)

(* C3: the step in which a cycle fails (at the tip or chain-info fetch, the
   header batch, the block batch, or by an exception) assigns nothing to
   histCache and histCacheTime, and no step clears a cached snapshot. *)
C3_FailedCycleLeavesCache ==
    [][/\ \A c \in Calls :
             (call[c].pc \in InFlight /\ call'[c].pc = "rejected")
             => (histCache' = histCache /\ histCacheTime' = histCacheTime)
       /\ histCache # Undefined => histCache' # Undefined]_vars

(* C3 witness: a cycle started on a stale snapshot has failed and the cache
   still holds a snapshot. *)
C3_Witness ==
    \E c \in Calls :
        /\ call[c].pc = "rejected"
        /\ call[c].observed = "STALE"
        /\ call[c].seenStores = histStores
        /\ histCache # Undefined

(* C4: a buildHistory call returns the cached snapshot, issuing no request,
   exactly when a snapshot is cached and now - histCacheTime is below 15 s;
   otherwise it issues the two fetches of a cycle, and a call that ran a
   cycle returns the snapshot that cycle has just stored. *)
C4_CachedIffFresh ==
    [][\A c \in Calls :
          /\ (call[c].pc = "idle" /\ call'[c].pc # "idle") =>
                LET own == Len(issued') - Len(issued)
                          - (IF call'[c].origin = "show" THEN 1 ELSE 0)
                IN  IF histCache # Undefined /\ now - histCacheTime < 15000
                    THEN /\ call'[c].pc = "resolved"
                         /\ call'[c].result = histCache
                         /\ own = 0
                    ELSE /\ call'[c].pc = "awaitTipInfo"
                         /\ own = 2
          /\ (call[c].pc \in InFlight /\ call'[c].pc = "resolved") =>
                /\ histStores' = histStores + 1
                /\ call'[c].result = histCache'
                /\ call'[c].result[1].tipHeight = call[c].tipNum]_vars

(* C4 witness: a call made exactly 15 s after the cached snapshot's
   timestamp found it stale, ran a cycle and has returned. *)
C4_Witness ==
    \E c, d \in Calls :
        /\ call[d].pc = "resolved" /\ call[d].observed = "EMPTY"
        /\ call[d].now = 0
        /\ call[c].pc = "resolved" /\ call[c].observed = "STALE"
        /\ call[c].now = HIST_TTL

(* C9: the ids of the single calls are 1, 2, 3, ... in issue order, over
   every interleaving of the callers, and rpcId is always one more than the
   number of single calls issued: batches do not advance it. *)
C9_SingleCallIdsIncrease ==
    /\ rpcId = Len(issued) + 1
    /\ \A i \in 1..Len(issued) : issued[i] = i

(* C9 witness: a show-data request and another caller have issued single
   calls and a cycle has sent both of its batches. *)
C9_Witness ==
    /\ Len(issued) >= 5
    /\ \E c, d \in Calls :
          /\ call[c].origin = "show" /\ call[c].showPc = "awaitEpoch"
          /\ call[d].origin = "warmup" /\ call[d].pc = "resolved"
          /\ call[d].observed = "EMPTY"

(* C10: when the block batch fails after the tip, chain-info and header
   fetches succeeded, the cycle still succeeds and stores a snapshot whose
   entries all have a null txCount. *)
C10_BlockBatchFailureDegrades ==
    \A c \in Calls :
        call[c].failedAt = "blocks" =>
            /\ call[c].pc = "resolved"
            /\ \A i \in 1..Len(call[c].result[1].blocks) :
                  call[c].result[1].blocks[i].txCount = Undefined

(* The errors the RPC client rejects with: of a single call, of a batch *)
CallErrors ==
    {rpcCallThen(ckbRequest(net)).error :
        net \in {NetFail(k) : k \in TransportKinds}
                \cup {NetJson(ErrorEnvelope(0, -32601, m)) : m \in Messages}}

BatchErrors ==
    {rpcBatchThen(ckbRequest(net)).error :
        net \in {NetFail(k) : k \in TransportKinds}
                \cup {NetJson(ErrorEnvelope(0, -32600, "Invalid request"))}}

TypeErrors ==
    {Some(Err("TypeError", "Cannot read properties of null", Undefined))}

(* C11 (as stated): a cycle that failed at the tip-header fetch, the
   chain-info fetch or the header batch on a transport or RPC error is
   rejected with an AggregationError. *)
C11_FailsWithAggregationError ==
    \A c \in Calls :
        (call[c].failedAt \in {"tip", "info", "headers"}
            /\ call[c].error \notin TypeErrors)
        => call[c].error[1].name = "AggregationError"

(* C11 (amended): the step in which the tip-header fetch, the chain-info
   fetch or the header batch fails rejects the call with the very error of
   the failed fetch (no wrapper), returns no snapshot, sends no request and
   assigns nothing to the cache; a rejected call takes no further step of
   the cycle. *)
C11_EarlyFailureAborts ==
    [][\A c \in Calls :
          /\ (call[c].pc \in {"awaitTipInfo", "awaitHeaders"}
                  /\ call'[c].pc = "rejected") =>
                /\ call'[c].failedAt \in {"tip", "info", "headers"}
                /\ call'[c].error \in
                      (IF call[c].pc = "awaitTipInfo"
                       THEN CallErrors \cup TypeErrors ELSE BatchErrors)
                /\ call'[c].result = Undefined
                /\ issued' = issued /\ rpcId' = rpcId
                /\ histCache' = histCache
                /\ histCacheTime' = histCacheTime
                /\ histStores' = histStores
          /\ call[c].pc = "rejected" =>
                /\ call'[c].pc = "rejected"
                /\ call'[c].result = Undefined
                /\ call'[c].error = call[c].error]_vars

(* C11 witness: one cycle failed on a refused connection of the tip fetch,
   another on a header batch answered by a lone error object; neither sent
   the block batch nor stored a snapshot. *)
C11_Witness ==
    \E c, d \in Calls :
        /\ call[c].pc = "rejected" /\ call[c].failedAt = "tip"
        /\ call[c].error = rpcCallThen(ckbRequest(NetFail("connError"))).error
        /\ call[d].pc = "rejected" /\ call[d].failedAt = "headers"
        /\ call[d].error[1].message = "Expected batch array response"
        /\ histStores = 0 /\ histCache = Undefined

(* C12: the step in which a cycle completes leaves the cache slot FRESH: a
   snapshot is cached and, at that moment, less than 15 s old by its
   timestamp, so that a call made right then is served from the cache. *)
C12_CompletionLeavesFresh ==
    [][\A c \in Calls :
          (call[c].pc \in InFlight /\ call'[c].pc = "resolved") =>
              /\ histCache' # Undefined
              /\ now' - histCacheTime' < 15000]_vars

(* The state of the cache slot at time t *)
CacheState(cache, cacheTime, t) ==
    IF cache = Undefined THEN "EMPTY"
    ELSE IF t - cacheTime < HIST_TTL THEN "FRESH" ELSE "STALE"

(* C13: the cache slot starts EMPTY and moves only EMPTY -> FRESH,
   FRESH -> STALE and STALE -> FRESH; it never returns to EMPTY; snapshot
   and timestamp change only together, in the step in which a cycle
   completes, to that cycle's result. *)
C13_CacheSlotStateMachine ==
    /\ histCache = Undefined
    /\ [][LET s == CacheState(histCache, histCacheTime, now)
              t == CacheState(histCache', histCacheTime', now')
          IN  /\ s # t => <<s, t>> \in {<<"EMPTY", "FRESH">>,
                                        <<"FRESH", "STALE">>,
                                        <<"STALE", "FRESH">>}
              /\ t # "EMPTY" \/ s = "EMPTY"
              /\ (histCache' # histCache \/ histCacheTime' # histCacheTime)
                    => \E c \in Calls :
                          /\ call[c].pc \in InFlight
                          /\ call'[c].pc = "resolved"
                          /\ call'[c].result = histCache']_vars

(* C27: however the cycles in flight interleave, the refresh timestamp
   never decreases and a cached snapshot is never replaced by one of a
   lower tip height (the node's tip never decreases). *)
C27_CacheNeverGoesBack ==
    [][/\ histCacheTime' >= histCacheTime
       /\ (histCache # Undefined /\ histCache' # Undefined) =>
             histCache'[1].tipHeight >= histCache[1].tipHeight]_vars

(* C24: the rejection of every failed cycle, the pre-warm cycle's and a
   request's alike, is caught by its caller, and the server, once
   listening, stays listening. *)
C24_FailureIsCaught ==
    [][/\ \A c \in Calls :
             call'[c].pc = "rejected" => (call'[c].caught /\ listening')
       /\ listening => listening']_vars

(* C24 witness: the pre-warm cycle has failed and a GET /history that came
   after the failure has been answered with a snapshot. *)
C24_Witness ==
    \E c, d \in Calls :
        /\ call[c].origin = "warmup" /\ call[c].pc = "rejected"
        /\ call[c].caught
        /\ call[d].origin = "history" /\ c \notin call[d].overlapped
        /\ call[d].pc = "resolved" /\ call[d].status = 200

(* C25: the step in which the cycle of a GET /history fails answers the
   request with the cached snapshot if there is one, and with an error if
   there is none. *)
C25_StaleServedOnFailure ==
    [][\A c \in Calls :
          (call[c].origin = "history" /\ call[c].pc \in InFlight
              /\ call'[c].pc = "rejected") =>
              IF histCache = Undefined
              THEN /\ call'[c].status = 500
                   /\ call'[c].sentError # Undefined
              ELSE /\ call'[c].status = 200
                   /\ call'[c].sentSnapshot = histCache]_vars

(* C23: every buildHistory call that waits for the node eventually
   resolves or rejects: each of its requests ends with the node's answer, a
   connection error or the timeout. *)
C23_EveryCallSettles ==
    \A c \in Calls : (call[c].pc \in InFlight) ~> (call[c].pc \in Settled)

(* The response of a GET /history: none while buildHistory is pending, one
   of status 200 with the snapshot once it has resolved, one of status 500
   with the error's message once it has rejected *)
ResponseMatchesOutcome ==
    \A c \in Calls :
        call[c].origin = "history" =>
            CASE call[c].pc = "resolved" ->
                    /\ call[c].responses = 1 /\ call[c].status = 200
                    /\ call[c].sentSnapshot = call[c].result
                    /\ call[c].sentSnapshot # Undefined
                    /\ call[c].sentError = Undefined
              [] call[c].pc = "rejected" ->
                    /\ call[c].responses = 1 /\ call[c].status = 500
                    /\ call[c].sentError = Some(call[c].error[1].message)
                    /\ call[c].sentSnapshot = Undefined
              [] OTHER -> call[c].responses = 0

(* C29: every GET /history gets exactly one response, 200 with the
   snapshot when buildHistory resolves and 500 with the error message when
   it rejects: never two, never both kinds, and eventually one. *)
C29_ExactlyOneResponse ==
    /\ []ResponseMatchesOutcome
    /\ \A c \in Calls :
          (call[c].origin = "history") ~> (call[c].responses = 1)

(* C30: a POST /rpc body of more than MAX_BODY bytes is never handed to
   proxyRpc: what is forwarded is the whole body of a request of at most
   MAX_BODY bytes; and no step of the /rpc handling changes histCache,
   histCacheTime or rpcId. *)
C30_ProxyLimitAndFrame ==
    [][/\ proxy' # proxy =>
             /\ histCache' = histCache
             /\ histCacheTime' = histCacheTime
             /\ rpcId' = rpcId
       /\ proxy'.bodySize > MAX_BODY =>
             (proxy'.pc = "destroyed" /\ proxy'.forwarded = Undefined)
       /\ proxy'.forwarded # Undefined =>
             /\ proxy'.forwarded = Some(proxy'.bodySize)
             /\ proxy'.bodySize <= MAX_BODY]_vars

(* C30 witness: the pre-warm cycle has issued its requests and stored a
   snapshot, and the second /rpc request, whose body reached MAX_BODY + 1
   bytes with its second chunk, has been destroyed with nothing
   forwarded. *)
C30_Witness ==
    /\ proxy.served = 2
    /\ proxy.pc = "destroyed"
    /\ proxy.chunks = 2
    /\ proxy.bodySize = MAX_BODY + 1
    /\ proxy.forwarded = Undefined
    /\ histCache # Undefined
    /\ rpcId > 1

---------------------------------------------------------------------------
(* Properties of the snapshot of a cycle (WindowSpec) *)

(* The snapshots stored or returned *)
SnapshotsOut ==
    {call[c].result[1] : c \in {d \in Calls : call[d].pc = "resolved"}}
    \cup (IF histCache = Undefined THEN {} ELSE {histCache[1]})

(* The heights of the entries of blocks, in order *)
Heights(snap) == [i \in 1..Len(snap.blocks) |-> snap.blocks[i].number]

(* The window of a tip height, as the specification states it *)
CountAt(t) == IF t + 1 < 60 THEN t + 1 ELSE 60
StartAt(t) == t - CountAt(t) + 1
TxCountAt(t) == IF CountAt(t) < 30 THEN CountAt(t) ELSE 30

(* The heights lo .. hi that satisfy keep, ascending *)
RECURSIVE Ascending(_, _, _)
Ascending(lo, hi, keep) ==
    IF lo > hi THEN <<>>
    ELSE (IF lo \in keep THEN <<lo>> ELSE <<>>) \o Ascending(lo + 1, hi, keep)

(* C14: in every snapshot stored or returned, blocks is strictly ascending
   by height, so no height occurs twice. *)
C14_BlocksStrictlyAscending ==
    \A snap \in SnapshotsOut :
        \A i, j \in 1..Len(snap.blocks) :
            i < j => snap.blocks[i].number < snap.blocks[j].number

(* C14 witness: a snapshot of the full window, 59 entries of consecutive
   heights, is stored. *)
C14_Witness ==
    /\ histCache # Undefined
    /\ Len(histCache[1].blocks) = HIST_COUNT - 1
    /\ histCache[1].blocks[1].number + HIST_COUNT - 2
          = histCache[1].blocks[HIST_COUNT - 1].number

(* C15 (as stated): for every tip height the snapshot has exactly one entry
   for each height of start + 1 .. tipHeight, without a gap. *)
C15_EntryForEveryHeight ==
    \A c \in Calls :
        call[c].pc = "resolved" =>
            LET snap == call[c].result[1]
                t == snap.tipHeight
            IN  Heights(snap) = [i \in 1..(t - StartAt(t)) |-> StartAt(t) + i]

(* C15 (amended): the cycle uses count = min(60, tipHeight + 1) and start =
   tipHeight - count + 1 and asks for the headers of start .. tipHeight in
   ascending order; blocks has, in ascending order, one entry for exactly
   the heights of start + 1 .. tipHeight whose header and whose
   predecessor's header the node returned, and none for start: every
   height of start + 1 .. tipHeight when the node returned every header
   (heights 1 .. 5 at tip height 5). *)
C15_WindowOfReturnedHeaders ==
    \A c \in Calls :
        /\ call[c].pc = "awaitHeaders" =>
              LET t == call[c].tipNum
                  reqs == HeaderRequests(t)
              IN  /\ Len(reqs) = CountAt(t)
                  /\ \A i \in 1..Len(reqs) :
                        /\ reqs[i].method = "get_header_by_number"
                        /\ ParseHex(reqs[i].params) = StartAt(t) + i - 1
        /\ call[c].pc = "resolved" =>
              LET snap == call[c].result[1]
                  t == snap.tipHeight
                  got == call[c].gotHeaders
                  full == StartAt(t)..t
              IN  /\ got \subseteq full
                  /\ Heights(snap) =
                        Ascending(StartAt(t) + 1, t,
                                  {k \in full : k \in got /\ k - 1 \in got})
                  /\ got = full =>
                        Heights(snap) =
                            [i \in 1..(t - StartAt(t)) |-> StartAt(t) + i]
                  /\ (t = 5 /\ got = full) =>
                        Heights(snap) = <<1, 2, 3, 4, 5>>

(* C15 witness: at a tip height above 60 the node returned all 60 headers
   and the snapshot has the 59 entries of start + 1 .. tipHeight. *)
C15_Witness ==
    \E c \in Calls :
        /\ call[c].pc = "resolved"
        /\ call[c].result[1].tipHeight > HIST_COUNT
        /\ Cardinality(call[c].gotHeaders) = HIST_COUNT
        /\ Len(call[c].result[1].blocks) = HIST_COUNT - 1
        /\ call[c].result[1].blocks[1].number
              = call[c].result[1].tipHeight - HIST_COUNT + 2

(* C16: blocks are fetched only for the last min(30, count) heights of the
   window; an entry has a transaction count exactly when its height is one
   of those and the node returned its block; the entries of older heights
   have none. *)
C16_TxCountInSubWindow ==
    \A c \in Calls :
        /\ call[c].pc = "awaitBlocks" =>
              LET t == call[c].tipNum
                  reqs == BlockRequests(t)
              IN  /\ Len(reqs) = TxCountAt(t)
                  /\ \A i \in 1..Len(reqs) :
                        /\ reqs[i].method = "get_block_by_number"
                        /\ ParseHex(reqs[i].params) = t - TxCountAt(t) + i
        /\ call[c].pc = "resolved" =>
              LET snap == call[c].result[1]
                  t == snap.tipHeight
                  sub == (t - TxCountAt(t) + 1)..t
              IN  /\ call[c].gotBlocks \subseteq sub
                  /\ \A i \in 1..Len(snap.blocks) :
                        LET e == snap.blocks[i]
                        IN  /\ e.txCount # Undefined <=>
                                  (e.number \in sub
                                     /\ e.number \in call[c].gotBlocks)
                            /\ e.number < t - TxCountAt(t) + 1 =>
                                  e.txCount = Undefined

(* C16 witness: a snapshot of the full window in which an entry of the last
   30 heights has a count, another has none because the node did not return
   its block, and the entries of older heights have none. *)
C16_Witness ==
    \E c \in Calls :
        /\ call[c].pc = "resolved"
        /\ Len(call[c].result[1].blocks) = HIST_COUNT - 1
        /\ Cardinality(call[c].gotBlocks) = TX_COUNT - 1
        /\ \E i, j, k \in 1..(HIST_COUNT - 1) :
              /\ i < j /\ j < k
              /\ call[c].result[1].blocks[i].txCount = Undefined
              /\ call[c].result[1].blocks[j].txCount = Undefined
              /\ call[c].result[1].blocks[j].number
                    > call[c].result[1].tipHeight - TX_COUNT
              /\ call[c].result[1].blocks[k].txCount # Undefined

(* C17: the transaction count of an entry is max(0, length of the block's
   transaction list - 1): 4 for a list of 5, 0 for a list of 0 or 1 and for
   a block without a list; it is never negative. *)
C17_TxCountIsLengthMinusOne ==
    \A snap \in SnapshotsOut :
        \A i \in 1..Len(snap.blocks) :
            LET e == snap.blocks[i]
                raw == BlockAt(e.number).transactions
            IN  e.txCount # Undefined =>
                    /\ e.txCount[1] >= 0
                    /\ raw = Undefined => e.txCount[1] = 0
                    /\ raw # Undefined =>
                          e.txCount[1] = (IF raw[1] >= 1 THEN raw[1] - 1
                                          ELSE 0)
                    /\ raw = Some(5) => e.txCount[1] = 4

(* C17 witness: a stored snapshot has entries of blocks with 5
   transactions, with 1, with 0 and without a transaction list. *)
C17_Witness ==
    /\ histCache # Undefined
    /\ \A raw \in {Some(5), Some(1), Some(0), Undefined} :
          \E i \in 1..Len(histCache[1].blocks) :
              /\ histCache[1].blocks[i].txCount # Undefined
              /\ BlockAt(histCache[1].blocks[i].number).transactions = raw
    /\ \E i \in 1..Len(histCache[1].blocks) :
          histCache[1].blocks[i].txCount = Some(4)

(* The hundredths a decimal string of two digits after the point stands for *)
Hundredths(d) ==
    (IF d.neg THEN -1 ELSE 1) * (100 * d.int + 10 * d.frac[1] + d.frac[2])

(* The sum of blockTime over the last min(N, 20) entries, and their number *)
RECURSIVE SumLast(_, _)
SumLast(entries, k) ==
    IF k = 0 \/ Len(entries) = 0 THEN 0
    ELSE entries[Len(entries)].blockTime
         + SumLast(SubSeq(entries, 1, Len(entries) - 1), k - 1)

(* C18 (as stated): avgBlockTimeSec equals the mean blockTime of the last
   min(N, 20) entries in seconds: (sum / n) / 1000. *)
C18_AverageIsExactMean ==
    \A snap \in SnapshotsOut :
        LET n == IF Len(snap.blocks) < 20 THEN Len(snap.blocks) ELSE 20
        IN  IF n = 0 THEN Hundredths(snap.avgBlockTimeSec) = 0
            ELSE Hundredths(snap.avgBlockTimeSec) * 10 * n
                    = SumLast(snap.blocks, 20)

(* C18 (amended): avgBlockTimeSec is the mean blockTime of the last
   min(N, 20) entries in seconds rounded to two decimal places, written
   with two digits after the point; it is 0.00 when blocks is empty. *)
C18_AverageIsRoundedMean ==
    \A snap \in SnapshotsOut :
        LET n == IF Len(snap.blocks) < 20 THEN Len(snap.blocks) ELSE 20
            diff == Hundredths(snap.avgBlockTimeSec) * 10 * n
                      - SumLast(snap.blocks, 20)
        IN  /\ Len(snap.avgBlockTimeSec.frac) = 2
            /\ IF n = 0 THEN Hundredths(snap.avgBlockTimeSec) = 0
               ELSE diff <= 5 * n /\ 0 - diff <= 5 * n

(* C18 witness: a stored snapshot of more than 20 entries whose mean over
   the last 20 is no multiple of 0.01 s and differs from the mean over all
   entries. *)
C18_Witness ==
    /\ histCache # Undefined
    /\ Len(histCache[1].blocks) > 20
    /\ SumLast(histCache[1].blocks, 20) % 200 # 0
    /\ SumLast(histCache[1].blocks, 20) * Len(histCache[1].blocks)
          # SumBlockTime(histCache[1].blocks) * 20

(* C21: a cycle whose get_blockchain_info result has no usable difficulty
   (none, not a number, no result at all) completes like any other: its
   snapshot has the dash as networkHashrate and an empty hashratePerBlock;
   a snapshot has a hash rate only when the difficulty parsed; no cycle
   fails for another reason than a failed fetch. *)
C21_UnusableDifficultyDegrades ==
    [][\A c \in Calls :
          /\ (call[c].pc = "awaitBlocks" /\ call'[c].pc = "resolved") =>
                LET snap == call'[c].result[1]
                IN  IF call[c].chainInfo \in UnusableInfos
                    THEN /\ snap.networkHashrate = Dash
                         /\ snap.hashratePerBlock = <<>>
                    ELSE /\ snap.networkHashrate # Dash
                         /\ Len(snap.hashratePerBlock)
                               = Max(0, Len(snap.blocks) - 10)
          /\ (call[c].pc \in InFlight /\ call'[c].pc = "rejected") =>
                /\ call'[c].failedAt \in {"tip", "info", "headers", "blocks"}
                /\ call'[c].error \in
                      (IF call[c].pc = "awaitTipInfo"
                       THEN CallErrors \cup TypeErrors ELSE BatchErrors)]_vars

(* C21 witness: a cycle answered with a difficulty that is no number has
   stored a snapshot of the full window with the dash and no per-block
   rates. *)
C21_Witness ==
    \E c \in Calls :
        /\ call[c].pc = "resolved"
        /\ Len(call[c].result[1].blocks) = HIST_COUNT - 1
        /\ call[c].result[1].networkHashrate = Dash
        /\ call[c].result[1].hashratePerBlock = <<>>
        /\ histCache = call[c].result

(* The difficulty the node reports, in units of 10^12 (it is a multiple) *)
DifficultyTera ==
    BigToNat(BigShift(ParseDifficulty(Some(ChainInfo))[1], 4))

(* The sum of the blockTime of the ten entries before entry i (1-based) *)
WindowSum(snap, i) ==
    LET bt(j) == snap.blocks[j].blockTime
    IN  bt(i - 10) + bt(i - 9) + bt(i - 8) + bt(i - 7) + bt(i - 6)
          + bt(i - 5) + bt(i - 4) + bt(i - 3) + bt(i - 2) + bt(i - 1)

(* hashratePerBlock has one entry per entry of blocks from the eleventh on,
   with its height, and the value rate(sum) where sum is the blockTime sum
   of the ten entries before it *)
PerBlockRatesAre(snap, rate(_)) ==
    /\ Len(snap.hashratePerBlock) = Max(0, Len(snap.blocks) - 10)
    /\ \A k \in 1..Len(snap.hashratePerBlock) :
          /\ snap.hashratePerBlock[k].number = snap.blocks[k + 10].number
          /\ snap.hashratePerBlock[k].hashrate
                = rate(WindowSum(snap, k + 10))

(* C22 (as stated): with a parseable difficulty every per-block value is
   difficulty / max(1, round(window average seconds)) in whole TH/s, the
   way the network hash rate is computed. *)
C22_RateAsNetworkRate ==
    \A snap \in SnapshotsOut :
        snap.networkHashrate # Dash =>
            LET rate(sum) == DifficultyTera \div Max(1, Round(sum, 10000))
            IN  PerBlockRatesAre(snap, rate)

(* C22 (amended): with a parseable difficulty hashratePerBlock has one
   entry for each index i from 10 to len(blocks) - 1, with the height of
   blocks[i]; its value is difficulty / max(1, round(average seconds of
   the ten entries before entry i)) in whole TH/s when that average is
   positive, and 0 when it is not. *)
C22_RateOfPrecedingTen ==
    \A snap \in SnapshotsOut :
        snap.networkHashrate # Dash =>
            LET rate(sum) ==
                    IF sum > 0
                    THEN DifficultyTera \div Max(1, Round(sum, 10000))
                    ELSE 0
            IN  PerBlockRatesAre(snap, rate)

(* C22 witness: a stored snapshot of the full window with per-block rates,
   one of them over a window of positive average and one over a window
   whose average is not positive. *)
C22_Witness ==
    /\ histCache # Undefined
    /\ Len(histCache[1].blocks) = HIST_COUNT - 1
    /\ Len(histCache[1].hashratePerBlock) = HIST_COUNT - 11
    /\ \E k \in 1..Len(histCache[1].hashratePerBlock) :
          /\ WindowSum(histCache[1], k + 10) > 0
          /\ histCache[1].hashratePerBlock[k].hashrate > 0
    /\ \E k \in 1..Len(histCache[1].hashratePerBlock) :
          /\ WindowSum(histCache[1], k + 10) <= 0
          /\ histCache[1].hashratePerBlock[k].hashrate = 0

(* C26: every entry of blocks carries the timestamp of the header of its
   height, and its blockTime is that timestamp minus the timestamp of the
   header one height below, whatever headers the node left out; the
   difference may be negative. *)
C26_BlockTimeFromAdjacentHeader ==
    \A snap \in SnapshotsOut :
        \A i \in 1..Len(snap.blocks) :
            LET e == snap.blocks[i]
            IN  /\ e.number >= 1
                /\ e.timestamp = BlockTimestamp(e.number)
                /\ e.blockTime = BlockTimestamp(e.number)
                                   - BlockTimestamp(e.number - 1)

(* C26 witness: a stored snapshot whose blocks have a gap (a header the
   node left out) and an entry of negative blockTime. *)
C26_Witness ==
    /\ histCache # Undefined
    /\ \E i \in 1..(Len(histCache[1].blocks) - 1) :
          histCache[1].blocks[i + 1].number > histCache[1].blocks[i].number + 1
    /\ \E i \in 1..Len(histCache[1].blocks) :
          histCache[1].blocks[i].blockTime < 0

(* The heights of hashratePerBlock are heights of blocks *)
RateHeightsInBlocks(snap) ==
    \A k \in 1..Len(snap.hashratePerBlock) :
        \E i \in 1..Len(snap.blocks) :
            snap.blocks[i].number = snap.hashratePerBlock[k].number

(* C28 (as stated): in a snapshot with a non-empty blocks, tipHeight is the
   height of the last entry, and every height of hashratePerBlock is a
   height of blocks. *)
C28_TipIsLastEntry ==
    \A snap \in SnapshotsOut :
        /\ Len(snap.blocks) > 0 =>
              snap.tipHeight = snap.blocks[Len(snap.blocks)].number
        /\ RateHeightsInBlocks(snap)

(* C28 (amended): tipHeight is the height of the tip header the cycle
   fetched first; in a snapshot with a non-empty blocks the last entry is
   at tipHeight when the node returned the headers of tipHeight and of
   tipHeight - 1, and below tipHeight when it left one of them out; every
   height of hashratePerBlock is a height of blocks. *)
C28_TipBoundsLastEntry ==
    [][\A c \in Calls :
          (call[c].pc = "awaitBlocks" /\ call'[c].pc = "resolved") =>
              LET snap == call'[c].result[1]
                  t == call[c].tipNum
                  got == call[c].gotHeaders
                  n == Len(snap.blocks)
              IN  /\ histCache' = Some(snap)
                  /\ snap.tipHeight = t
                  /\ n > 0 =>
                        IF {t, t - 1} \subseteq got
                        THEN snap.blocks[n].number = t
                        ELSE snap.blocks[n].number < t
                  /\ RateHeightsInBlocks(snap)]_vars

(* C28 witness: a stored snapshot with per-block rates whose last entry is
   below tipHeight: the node left out the header of the tip. *)
C28_Witness ==
    \E c \in Calls :
        /\ call[c].pc = "resolved"
        /\ histCache = call[c].result
        /\ Len(call[c].result[1].hashratePerBlock) > 0
        /\ call[c].result[1].tipHeight \notin call[c].gotHeaders
        /\ call[c].result[1].blocks[Len(call[c].result[1].blocks)].number
              < call[c].result[1].tipHeight

---------------------------------------------------------------------------
(* Properties of the network hash rate (FormatSpec) *)

(* The unit of a rate by its size: 1000n ** 6 = 10 ** 18 and above EH/s,
   ..., below 1000 H/s *)
UnitOfRate(rate) ==
    CASE Len(rate) >= 7 -> "EH/s"
      [] Len(rate) = 6 -> "PH/s"
      [] Len(rate) = 5 -> "TH/s"
      [] Len(rate) = 4 -> "GH/s"
      [] Len(rate) = 3 -> "MH/s"
      [] Len(rate) = 2 -> "kH/s"
      [] OTHER -> "H/s"

(* The rate in thousandths of its unit, truncated *)
Thousandths(rate) ==
    IF Len(rate) >= 7 THEN BigToNat(BigShift(rate, 5))
    ELSE IF Len(rate) >= 2
         THEN rate[Len(rate)] * 1000 + rate[Len(rate) - 1]
         ELSE BigToNat(rate) * 1000

(* C19: with a parseable difficulty the hash rate is the difficulty divided
   (integer division) by max(1, round(average block time in seconds)) and
   carries the largest unit whose threshold it reaches, else H/s:
   difficulty 10 ** 13 at 10 s gives 1.00 TH/s, difficulty 500 at 1 s gives
   500.00 H/s. *)
C19_RateAndUnit ==
    hrPc = "done" =>
        \A d \in Difficulties :
            hrChainInfo = InfoOf(d) =>
                LET secs == CHOOSE k \in -10..40 :
                                /\ 2 * k * hrAvg.den - hrAvg.den <= 2 * hrAvg.num
                                /\ 2 * hrAvg.num < 2 * k * hrAvg.den + hrAvg.den
                    rate == BigDiv(d, IF secs < 1 THEN 1 ELSE secs)
                    gap == 10 * Hundredths(hrOut.text) - Thousandths(rate)
                IN  /\ hrOut.unit = UnitOfRate(rate)
                    /\ Len(rate) > 0 => (gap <= 5 /\ 0 - gap <= 5)
                    /\ (d = BigOf(0, 10, 4) /\ hrAvg.num = 10 * hrAvg.den) =>
                          hrOut = Rendered(Decimal(FALSE, 1, <<0, 0>>), "TH/s")
                    /\ (d = BigOf(0, 500, 0) /\ hrAvg.num = hrAvg.den) =>
                          hrOut = Rendered(Decimal(FALSE, 500, <<0, 0>>), "H/s")

(* C19 witness: difficulty 10 ** 13 at an average of 10 s rendered as
   1.00 TH/s. *)
C19_Witness ==
    /\ hrPc = "done"
    /\ hrChainInfo = InfoOf(BigOf(0, 10, 4))
    /\ hrAvg = [num |-> 10000, den |-> 1000]
    /\ hrOut = Rendered(Decimal(FALSE, 1, <<0, 0>>), "TH/s")

(* C20: every hash rate of a parseable difficulty is written with exactly
   two digits after the point, followed by its unit, rate 0 included. *)
C20_TwoDecimalsAlways ==
    (hrPc = "done" /\ \E d \in Difficulties : hrChainInfo = InfoOf(d)) =>
        /\ Len(hrOut.text.frac) = 2
        /\ hrOut.unit \in {Units[i].unit : i \in 1..Len(Units)}

---------------------------------------------------------------------------
(* Properties of the RPC client (ClientSpec) *)

clBatchDone == clMode = "batch" /\ clPc = "done"

clArrayAnswer == clNet.kind = "json" /\ clNet.body.isArray

(* The item of the response that answers request k (tagged k - 1) *)
clItemFor(k) ==
    LET items == clNet.body.items
    IN  items[CHOOSE i \in 1..Len(items) : items[i].id = k - 1]

(* C5: rpcBatch tags request k (counted from 0) with id k, and for every
   order in which the response array lists the items it returns one result
   per request, result k being the result of request k. *)
C5_BatchRestoresRequestOrder ==
    /\ (clMode = "batch" /\ clPc \in {"sent", "done"}) =>
          /\ Len(clSent) = Len(clRequests)
          /\ \A k \in 1..Len(clRequests) : clSent[k].id = k - 1
    /\ (clBatchDone /\ clArrayAnswer) =>
          /\ clOut.ok
          /\ Len(clOut.value) = Len(clRequests)
          /\ \A k \in 1..Len(clRequests) :
                ~clItemFor(k).hasError =>
                    clOut.value[k] = Some(NodeResult(clRequests[k], tip))

(* C5 witness: a batch of MaxBatch requests with different results, answered
   in another order than it was sent, has settled. *)
C5_Witness ==
    /\ clBatchDone /\ clArrayAnswer /\ clOut.ok
    /\ Len(clRequests) = MaxBatch
    /\ clRequests[1].params # clRequests[MaxBatch].params
    /\ clNet.body.items[1].id # 0
    /\ \A i \in 1..Len(clNet.body.items) : ~clNet.body.items[i].hasError

(* C6: items of a batch response that carry an error do not fail the batch:
   the result is absent at exactly the positions of the failed requests and
   is the node's result at every other position. *)
C6_ItemErrorsPassThrough ==
    (clBatchDone /\ clArrayAnswer) =>
        /\ clOut.ok
        /\ \A k \in 1..Len(clRequests) :
              IF clItemFor(k).hasError
              THEN clOut.value[k] = Undefined
              ELSE clOut.value[k] = Some(NodeResult(clRequests[k], tip))

(* C6 witness: a settled batch in which one request failed and another did
   not. *)
C6_Witness ==
    /\ clBatchDone /\ clArrayAnswer /\ clOut.ok
    /\ Len(clRequests) >= 2
    /\ clItemFor(1).hasError
    /\ ~clItemFor(2).hasError
    /\ clOut.value[1] = Undefined

(* C7: rpcBatch fails, returning no results, when the response is not an
   array and when the exchange fails (connection error, timeout). *)
C7_BatchFailsOnNonArrayOrTransport ==
    (clBatchDone /\ (clNet.kind \in TransportKinds \/ ~clArrayAnswer)) =>
        /\ ~clOut.ok
        /\ clOut.value = Undefined
        /\ clOut.error # Undefined

(* C7 witness: a batch of requests answered by a lone error object was
   rejected. *)
C7_Witness ==
    /\ clBatchDone
    /\ Len(clRequests) >= 1
    /\ clNet.kind = "json" /\ ~clNet.body.isArray
    /\ ~clOut.ok
    /\ clOut.error[1].message = "Expected batch array response"

(* C8: rpcCall rejects a response whose envelope has an error field with an
   error that carries the node's code and message and that differs from the
   error of every transport failure. *)
C8_RpcErrorCarriesCodeDistinctFromTransport ==
    (clMode = "single" /\ clPc = "done"
        /\ clNet.kind = "json" /\ clNet.body.hasError) =>
        /\ ~clOut.ok
        /\ clOut.error[1].message = clNet.body.error.message
        /\ clOut.error[1].code # Undefined
        /\ clOut.error[1].code[1] = clNet.body.error.code
        /\ \A k \in TransportKinds :
              clOut # rpcCallThen(ckbRequest(NetFail(k)))

====
